---- MODULE Spec2Model ----
(***************************************************************************)
(* spotify-queue-bot: the OAuth2 token manager (src/oauth2.py, and the     *)
(* earlier self-contained client src/spotify_client.py), the API client    *)
(* built on it (src/src/spotify_client.py) and the command-line read loop  *)
(* (src/src/queue_bot.py).                                                 *)
(*                                                                         *)
(* The program is single-threaded.  One action of the model runs the code  *)
(* from one blocking point (a console read, an HTTP round trip) to the     *)
(* next; pc names the blocking point the program is waiting at, or the     *)
(* moment a call has just returned / raised.                               *)
(*                                                                         *)
(* Python's None is the empty tuple and a present value v is <<v>>.        *)
(* Clock values are whole seconds; two reads of the clock in straight-line *)
(* code differ by 0 or 1 (LocalDelays), a blocking point lets any amount   *)
(* of time pass (Tick).                                                    *)
(***************************************************************************)
EXTENDS Integers, Sequences, FiniteSets, TLC

\* Bounds of the model.
MaxTime == 2
MaxPosts == 3

None == <<>>
Some(v) == <<v>>

VARIABLES
    \* the object under use
    cls,                        \* "oauth2" (src/oauth2.py) or "legacy" (src/spotify_client.py)
    session,                    \* "direct": a caller of the token manager; "bot": main.py
    client_id, client_secret,
    access_token, access_token_expires, auth_code,
    \* the clock read by datetime.datetime.now()
    now,
    \* control: position, perform_auth's call site, the exception in flight,
    \* the value returned, get_access_token's argument, caller and local
    pc, site, error, retval,
    authType, caller, token,
    \* the token endpoint: POSTs sent so far, the status of the last answer
    posts, lastStatus,
    \* the form data of the token request that is waiting for its answer
    tokenReq,
    \* history of the accessor call in progress, and of the one before it
    callPosts, callAuths, entryState, callGood, prevCall,
    \* QueueBot and the locals of perform_queue_adding
    active, raw_query, query, search_type, results, track_uri, printed,
    \* the API requests (search, queue-add) sent during the current iteration
    reqs,
    \* the exception the except clause of the current iteration has handled
    caught,
    \* the grant types with which the bearer tokens presented to the API in
    \* this session were obtained
    sessionGrants,
    \* two objects of the class side by side: the attributes of the class
    \* object and the __dict__ of each instance
    heap,
    \* the object whose method ran in the last step (0: none)
    actor

\* access_token_did_expire is written by perform_auth and read nowhere; it
\* is not part of the state.

objVars == <<client_id, client_secret, access_token, access_token_expires, auth_code>>
tokenVars == <<access_token, access_token_expires>>
ctlVars == <<pc, site, error, retval, posts, callPosts, tokenReq>>
callVars == <<authType, caller, entryState>>
histVars == <<lastStatus, callAuths, callGood, prevCall>>
botVars == <<active, raw_query, query, search_type, results, track_uri, printed, reqs,
            caught, sessionGrants>>
pyVars == <<heap, actor>>
vars == <<cls, session, objVars, now, ctlVars, callVars, token, histVars, botVars, pyVars>>

-----------------------------------------------------------------------------
\* Inputs of the environment.

Classes == {"oauth2", "legacy"}
Credentials == { <<Some("id"), Some("secret")>>,
                 <<Some(""), Some("secret")>>,
                 <<Some("id"), None>> }
AuthTypes == {"client_credentials", "authorization_code", "implicit"}

\* HTTP statuses the endpoints answer with.
Statuses == {199, 200, 298, 299, 300, 404}

\* expires_in of a token response, in seconds.
ExpiresIns == {-1, 0, 1, 2}

\* JSON body of a token response: access_token is a fresh string, null or
\* missing; expires_in is a number or missing.
Bodies == [tok : {"token", "null", "missing"},
           exp : {None} \cup {Some(e) : e \in ExpiresIns}]

\* The line the user pastes at the consent prompt: the query string of the
\* URL as its list of key=value pairs.
Uris == { [query |-> << <<"code", "ABC">>, <<"state", "123">> >>],
          [query |-> << <<"state", "123">>, <<"code", "XYZ">>, <<"code", "ABC">> >>],
          [query |-> << <<"state", "123">> >>],
          [query |-> << <<"code", "">>, <<"state", "123">> >>],
          [query |-> << >>] }

LocalDelays == {0, 1}

\* Console input: a line is the sequence of its characters.
QuitLine == <<"-", "q", "u", "i", "t">>
AlbumFlag == <<"-", "a", "l", "b", "u", "m">>
Lines == { QuitLine,
           <<"a">>,
           <<"a", " ">> \o AlbumFlag,
           AlbumFlag \o <<"b">>,
           <<"-", "q", "u", "i", "t", " ">> }

\* JSON of a search answer: for each of the keys "tracks" and "albums",
\* None when the key is missing, else the URIs / ids of its items.
EmptyJson == [tracks |-> None, albums |-> None]
SearchJsons == { EmptyJson,
                 [tracks |-> Some(<<>>), albums |-> None],
                 [tracks |-> Some(<<"uri1">>), albums |-> None],
                 [tracks |-> Some(<<"uri2", "uri1">>), albums |-> None],
                 [tracks |-> None, albums |-> Some(<<"id1">>)] }

-----------------------------------------------------------------------------
\* Exceptions.  Every exception of the code is a built-in one constructed
\* from a message (or a key); none carries an HTTP status.

NoError == [type |-> "", msg |-> "", status |-> None]
Exc(t, m) == [type |-> t, msg |-> m, status |-> None]

\* What print wrote during the current iteration of the read loop.
NoPrint == [fmt |-> "", code |-> 0, reason |-> "", arg |-> <<>>]

NoData == [grant_type |-> "", code |-> None]
NoCall == [grant |-> "none", posts |-> 0]

\* r.reason: the reason phrase of an HTTP status.
ReasonOf(status) ==
    CASE status = 300 -> "Multiple Choices"
      [] status = 404 -> "Not Found"
      [] OTHER -> ""

-----------------------------------------------------------------------------
\* Pure helpers.

\* Python: x in range(lo, hi)
InRange(lo, hi, x) == lo <= x /\ x < hi

\* A status check that lets redirections through.
valid_request_Below400(status) == InRange(200, 400, status)

\* r.status_code in range(200, 299)
valid_request(status) == InRange(200, 299, status)

\* urllib.parse.parse_qs: key -> list of its non-blank values, in order
\* (keep_blank_values is False: a pair with an empty value is dropped).
parse_qs(q) ==
    LET kept == SelectSeq(q, LAMBDA p : p[2] # "")
        keys == {kept[i][1] : i \in DOMAIN kept}
        ValuesOf(k) ==
            LET ofKey == SelectSeq(kept, LAMBDA p : p[1] = k)
            IN  [i \in DOMAIN ofKey |-> ofKey[i][2]]
    IN  [k \in keys |-> ValuesOf(k)]

\* parse_qs(parsed.query)["code"][0]; None stands for the KeyError.
get_code_from_uri(uri) ==
    LET qs == parse_qs(uri.query)
    IN  IF "code" \in DOMAIN qs THEN Some(qs["code"][1]) ELSE None

\* get_client_credentials raises when an id or secret is None.
CredentialsUnset == client_id = None \/ client_secret = None

\* NeedsReauth with the test of the token inverted (token != None).
NeedsReauth_TokenTestInverted(expires, n, tok) == expires[1] < n \/ tok # None

\* The condition of the re-authentication branch of get_access_token:
\*   self.access_token_expires < now or token == None
NeedsReauth(expires, n, tok) == expires[1] < n \/ tok = None

\* Python: sub in s
Contains(s, sub) ==
    \E i \in 1..(Len(s) - Len(sub) + 1) : SubSeq(s, i, i + Len(sub) - 1) = sub

\* Python: s.replace(old, ""), for a non-empty old
RECURSIVE Remove(_, _)
Remove(s, old) ==
    IF Len(s) < Len(old) THEN s
    ELSE IF SubSeq(s, 1, Len(old)) = old
         THEN Remove(SubSeq(s, Len(old) + 1, Len(s)), old)
         ELSE <<s[1]>> \o Remove(Tail(s), old)

\* QueueBot.__has_album_flag
has_album_flag(q) == Contains(q, AlbumFlag)

\* IsQuit with the literal misspelt ("quit").
IsQuit_WrongLiteral(q) == q = <<"q", "u", "i", "t">>

\* __process_queue_query: query == "-quit"
IsQuit(q) == q = QuitLine

\* __process_queue_query returning the line with its flag.
process_queue_query_KeepsFlag(q) ==
    IF IsQuit(q) THEN None ELSE Some(q)

\* QueueBot.__process_queue_query: the value returned (None for "-quit")
process_queue_query(q) ==
    IF IsQuit(q) THEN None
    ELSE IF has_album_flag(q) THEN Some(Remove(q, AlbumFlag))
    ELSE Some(q)

\* The state of the token accessor's state machine, as the spec names it.
TokenState ==
    IF access_token = None THEN "NoToken"
    ELSE IF access_token_expires # None /\ now < access_token_expires[1]
         THEN "Valid" ELSE "Expired"

\* A token response that is a success carrying a token that is valid for a
\* positive time.
GoodResponse(status, body) ==
    /\ status \in 200..299
    /\ body.tok = "token"
    /\ body.exp # None /\ body.exp[1] > 0

\* The two objects of the class that live in one process.
Objs == {1, 2}

\* The attributes of the token state.
Attrs == {"access_token", "access_token_expires", "auth_code"}

\* class SpotifyAPIOAuth2: access_token = None, access_token_expires = None,
\* auth_code = None (attributes of the class object)
ClassAttrs == [a \in Attrs |-> None]

\* The __dict__ of a new instance: none of the attributes is in it (<<>>);
\* an attribute that is in it with value v is <<v>>.
NoAttrs == [a \in Attrs |-> <<>>]

\* Python attribute lookup self.a: the instance __dict__, then the class.
GetAttr(h, o, a) == IF h.inst[o][a] # <<>> THEN h.inst[o][a][1] ELSE h.cls[a]

\* An assignment that stores on the class object.
Store_OnClass(h, o, a, v) == [h EXCEPT !.cls[a] = v]

\* Python attribute assignment self.a = v: an entry of the instance __dict__.
Store(h, o, a, v) == [h EXCEPT !.inst[o][a] = <<v>>]

-----------------------------------------------------------------------------
Init ==
    /\ cls = "none" /\ session = "none"
    /\ client_id = None /\ client_secret = None
    /\ access_token = None /\ access_token_expires = None /\ auth_code = None
    /\ now = 0
    /\ pc = "new" /\ site = "none" /\ error = NoError /\ retval = None
    /\ authType = "none" /\ caller = "none" /\ token = None
    /\ posts = 0 /\ lastStatus = 0 /\ tokenReq = NoData
    /\ callPosts = 0 /\ callAuths = 0 /\ entryState = "none"
    /\ callGood = TRUE /\ prevCall = NoCall
    /\ active = FALSE /\ raw_query = <<>> /\ query = None
    /\ search_type = "" /\ results = EmptyJson /\ track_uri = ""
    /\ printed = NoPrint /\ reqs = <<>> /\ caught = NoError /\ sessionGrants = {}
    /\ heap = [cls |-> ClassAttrs, inst |-> [o \in Objs |-> NoAttrs]]
    /\ actor = 0

\* The program moves to position p: e is the exception in flight (NoError
\* if none), r the value returned, dp the number of POSTs just sent to the
\* token endpoint, cp the POSTs of the current call before that, d the form
\* data of the POST just sent (NoData if none).
Ctl(p, s, e, r, cp, dp, d) ==
    /\ dp = 1 => posts < MaxPosts
    /\ pc' = p /\ site' = s /\ error' = e /\ retval' = r
    /\ posts' = posts + dp /\ callPosts' = cp + dp
    /\ tokenReq' = d

\* get_token_data without the code.
get_token_data_NoCode(at, code) == [grant_type |-> at, code |-> None]

\* SpotifyAPIOAuth2.get_token_data: the form data of the token request; code
\* is self.auth_code at the time the data is built.
get_token_data(at, code) ==
    [grant_type |-> at,
     code |-> IF at = "authorization_code" THEN code ELSE None]

\* requests.post(self.token_url, data=..., headers=self.get_token_headers()):
\* the headers are built first (and may raise), then the POST is sent.
PostToken(s, cp, at, code) ==
    IF CredentialsUnset
    THEN Ctl("raised", s, Exc("Exception", "You must set client_id and client_secret."),
             None, cp, 0, NoData)
    ELSE Ctl("post_wait", s, NoError, None, cp, 1, get_token_data(at, code))

\* perform_auth treating every grant type it does not know as the
\* client-credentials grant.
perform_auth_begin_DefaultsToClientCredentials(at, s, ca, cp) ==
    /\ callAuths' = ca + 1
    /\ IF cls # "legacy" /\ at = "authorization_code"
       THEN Ctl("consent_wait", s, NoError, None, cp, 0, NoData)
       ELSE PostToken(s, cp, "client_credentials", auth_code)

\* perform_auth up to its first blocking point.  The legacy class has no
\* auth_type parameter and always uses the client-credentials grant.
perform_auth_begin(at, s, ca, cp) ==
    /\ callAuths' = ca + 1
    /\ CASE cls = "legacy" \/ at = "client_credentials" ->
                PostToken(s, cp, "client_credentials", auth_code)
         [] cls # "legacy" /\ at = "authorization_code" ->
                \* store_auth_code: webbrowser.open, then input(...)
                Ctl("consent_wait", s, NoError, None, cp, 0, NoData)
         [] OTHER ->
                Ctl("raised", s, Exc("Exception", "Invalid authorization flow entered."),
                    None, cp, 0, NoData)

\* get_access_token from its entry to the first blocking point.
get_access_token_enter(at, c) ==
    /\ authType' = at /\ caller' = c
    /\ entryState' = TokenState
    /\ token' = IF cls = "legacy" THEN access_token ELSE None
    /\ callGood' = TRUE
    /\ perform_auth_begin(at, "L112", 0, 0)

\* The call is over: its locals are gone; what is remembered of it is
\* whether it was an accessor call that returned, its grant and its POSTs.
EndCall(ok) ==
    /\ prevCall' = IF ok /\ caller # "perform_auth"
                   THEN [grant |-> authType, posts |-> callPosts] ELSE NoCall
    /\ site' = "none" /\ retval' = None /\ token' = None
    /\ authType' = "none" /\ caller' = "none" /\ entryState' = "none"
    /\ callAuths' = 0 /\ callGood' = TRUE /\ lastStatus' = 0

-----------------------------------------------------------------------------
\* Actions.

\* SpotifyAPIOAuth2.__init__ / SpotifyAPI.__init__ / QueueBot.__init__
Construct(c, s, cred) ==
    /\ pc = "new"
    /\ s = "bot" => c = "oauth2"
    /\ cls' = c /\ session' = s
    /\ client_id' = cred[1] /\ client_secret' = cred[2]
    /\ pc' = "idle"
    /\ UNCHANGED <<pyVars, tokenVars, auth_code, now, site, error, retval, posts, tokenReq, callPosts,
                   callVars, token, histVars, botVars>>

\* A caller invokes get_access_token on the object.
CallGetAccessToken(at) ==
    /\ pc = "idle" /\ session = "direct"
    /\ cls = "legacy" => at = "client_credentials"
    /\ get_access_token_enter(at, "direct")
    /\ UNCHANGED <<pyVars, cls, session, objVars, now, lastStatus, prevCall, botVars>>

\* A caller invokes perform_auth on the object.
CallPerformAuth(at) ==
    /\ pc = "idle" /\ session = "direct"
    /\ cls = "legacy" => at = "client_credentials"
    /\ authType' = at /\ caller' = "perform_auth"
    /\ entryState' = TokenState
    /\ callGood' = TRUE
    /\ perform_auth_begin(at, "direct", 0, 0)
    /\ UNCHANGED <<pyVars, cls, session, objVars, now, lastStatus, prevCall, token, botVars>>

\* store_auth_code: the user pastes a line at the consent prompt; the code
\* is extracted and stored, then perform_auth sends the token POST.
PasteUri(uri) ==
    /\ pc = "consent_wait"
    /\ LET code == get_code_from_uri(uri)
       IN  IF code = None
           THEN /\ Ctl("raised", site, Exc("KeyError", "code"), None, callPosts, 0, NoData)
                /\ UNCHANGED auth_code
           ELSE /\ auth_code' = code
                /\ PostToken(site, callPosts, authType, auth_code')
    /\ UNCHANGED <<pyVars, cls, session, client_id, client_secret, tokenVars, now, callVars,
                   token, histVars, botVars>>

\* The token endpoint answers the POST: the rest of perform_auth, and the
\* code of its caller up to the next blocking point.
TokenResponse(status, body) ==
    /\ pc = "post_wait"
    /\ callGood' = (callGood /\ GoodResponse(status, body))
    /\ UNCHANGED <<pyVars, cls, session, client_id, client_secret, auth_code, callVars,
                   prevCall, botVars>>
    /\ IF ~valid_request(status)
       THEN /\ Ctl("raised", site, Exc("Exception", "Could not authenticate client."),
                   None, callPosts, 0, NoData)
            /\ UNCHANGED <<tokenVars, now, token, callAuths>>
       ELSE IF body.tok = "missing"
       THEN \* data["access_token"]
            /\ Ctl("raised", site, Exc("KeyError", "access_token"), None, callPosts, 0, NoData)
            /\ UNCHANGED <<tokenVars, now, token, callAuths>>
       ELSE IF body.exp = None
       THEN \* data["expires_in"], after self.access_token was assigned
            /\ access_token' = (IF body.tok = "null" THEN None ELSE Some(posts))
            /\ Ctl("raised", site, Exc("KeyError", "expires_in"), None, callPosts, 0, NoData)
            /\ UNCHANGED <<access_token_expires, now, token, callAuths>>
       ELSE /\ access_token' = (IF body.tok = "null" THEN None ELSE Some(posts))
            /\ access_token_expires' = Some(now + body.exp[1])
            /\ CASE site = "direct" ->
                      /\ Ctl("auth_returned", site, NoError, None, callPosts, 0, NoData)
                      /\ UNCHANGED <<now, token, callAuths>>
                 [] site = "L112" ->
                      \E d \in LocalDelays :
                        /\ now + d <= MaxTime
                        /\ now' = now + d
                        /\ token' = IF cls = "legacy" THEN token ELSE access_token'
                        /\ IF NeedsReauth(access_token_expires', now', token')
                           THEN perform_auth_begin(authType, "L122", callAuths, callPosts)
                           ELSE /\ Ctl("returned", site, NoError, token', callPosts, 0, NoData)
                                /\ UNCHANGED callAuths
                 [] site = "L122" ->
                      \* return self.get_access_token(auth_type)
                      /\ token' = IF cls = "legacy" THEN access_token' ELSE None
                      /\ perform_auth_begin(authType, "L112", callAuths, callPosts)
                      /\ UNCHANGED now
    /\ lastStatus' = IF pc' \in {"returned", "auth_returned", "raised"} THEN status ELSE 0

\* The direct caller receives the value returned.
CallerReturn ==
    /\ pc \in {"returned", "auth_returned"}
    /\ caller \in {"direct", "perform_auth"}
    /\ pc' = "idle"
    /\ EndCall(TRUE)
    /\ callPosts' = 0
    /\ UNCHANGED <<pyVars, cls, session, objVars, now, error, posts, tokenReq, botVars>>

\* An exception leaves the call: a direct caller catches it, main.py does
\* not and the process ends with the traceback.
Propagate ==
    /\ pc = "raised"
    /\ IF session = "direct"
       THEN /\ pc' = "idle" /\ error' = NoError
            /\ EndCall(FALSE)
            /\ callPosts' = 0
            /\ UNCHANGED botVars
       ELSE /\ pc' = "crashed"
            /\ active' = active
            /\ UNCHANGED <<error, site, retval, token, callVars, histVars, callPosts,
                           raw_query, query, search_type, results, track_uri, printed,
                           reqs, caught, sessionGrants>>
    /\ UNCHANGED <<pyVars, cls, session, objVars, now, posts, tokenReq>>

-----------------------------------------------------------------------------
\* The read loop (main.py, QueueBot.perform_queue_adding).

\* get_resource_headers asking for a client-credentials token.
ResourceGrant_ClientCredentials == "client_credentials"

\* SpotifyAPI.get_resource_headers: self.get_access_token("authorization_code")
ResourceGrant == "authorization_code"

\* SpotifyAPI.get_queue_headers: self.get_access_token("authorization_code")
QueueGrant == "authorization_code"

\* main: QueueBot.perform_queue_adding up to the first prompt.
PerformQueueAdding ==
    /\ pc = "idle" /\ session = "bot"
    /\ active' = TRUE
    /\ pc' = "prompt"
    /\ UNCHANGED <<pyVars, cls, session, objVars, now, site, error, retval, posts, tokenReq, callPosts,
                   callVars, token, histVars, raw_query, query, search_type, results,
                   track_uri, printed, reqs, caught, sessionGrants>>

\* The user enters a line: __process_queue_query, then for any line but
\* "-quit" search -> base_search -> get_resource_headers -> get_access_token.
ReadInput(line) ==
    /\ pc = "prompt"
    /\ raw_query' = line
    /\ query' = process_queue_query(line)
    /\ printed' = NoPrint
    /\ reqs' = <<>>
    /\ caught' = NoError
    /\ UNCHANGED <<pyVars, cls, session, objVars, now, lastStatus, prevCall, results,
                   track_uri, sessionGrants>>
    /\ IF IsQuit(line)
       THEN /\ active' = FALSE
            /\ pc' = "exited"
            /\ UNCHANGED <<site, error, retval, posts, tokenReq, callPosts, callVars, token,
                           callAuths, callGood, search_type>>
       ELSE /\ active' = active
            /\ search_type' = IF has_album_flag(line) THEN "album" ELSE "track"
            /\ get_access_token_enter(ResourceGrant, "search")

\* SpotifyAPI.search / base_search: GET /v1/search?q=<query>&type=<type>&limit=50
search_request(q, type) == [kind |-> "search", q |-> q, type |-> type, uri |-> ""]

\* SpotifyAPI.add_to_queue: POST /v1/me/player/queue?uri=<uri>
queue_request(uri) == [kind |-> "queue", q |-> <<>>, type |-> "", uri |-> uri]

\* get_access_token returns to get_resource_headers / get_queue_headers:
\* the request that needed the bearer token is sent.
HeadersReturn ==
    /\ pc = "returned"
    /\ caller \in {"search", "queue"}
    /\ pc' = IF caller = "search" THEN "search_wait" ELSE "queue_wait"
    /\ reqs' = Append(reqs, IF caller = "search"
                            THEN search_request(query[1], search_type)
                            ELSE queue_request(track_uri))
    /\ sessionGrants' = sessionGrants \cup {authType}
    /\ EndCall(TRUE)
    /\ callPosts' = 0
    /\ UNCHANGED <<pyVars, cls, session, objVars, now, error, posts, tokenReq, active, raw_query, query,
                   search_type, results, track_uri, printed, caught>>

\* get_first_track_uri taking the last item of the list.
get_first_track_uri_LastItem(json) ==
    IF json.tracks = None
    THEN [err |-> Exc("KeyError", "tracks"), uri |-> ""]
    ELSE IF json.tracks[1] = <<>>
    THEN [err |-> Exc("IndexError", "list index out of range"), uri |-> ""]
    ELSE [err |-> NoError, uri |-> json.tracks[1][Len(json.tracks[1])]]

\* SpotifyAPI.get_first_track_uri: track_search_json["tracks"]["items"][0]["uri"]
get_first_track_uri(json) ==
    IF json.tracks = None
    THEN [err |-> Exc("KeyError", "tracks"), uri |-> ""]
    ELSE IF json.tracks[1] = <<>>
    THEN [err |-> Exc("IndexError", "list index out of range"), uri |-> ""]
    ELSE [err |-> NoError, uri |-> json.tracks[1][1]]

\* The search endpoint answers: the rest of base_search, then the try block
\* of perform_queue_adding up to the next blocking point.
SearchResponse(status, json) ==
    /\ pc = "search_wait"
    /\ results' = IF valid_request(status) THEN json ELSE EmptyJson
    /\ UNCHANGED <<pyVars, cls, session, objVars, now, lastStatus, prevCall, active, raw_query,
                   query, search_type, reqs, sessionGrants>>
    /\ LET shown == IF valid_request(status) THEN printed
                    ELSE [NoPrint EXCEPT !.fmt = "%d", !.code = status]
           Fail(e) == /\ pc' = "raised" /\ error' = e /\ printed' = shown
                      /\ UNCHANGED <<site, retval, posts, tokenReq, callPosts, callVars, token,
                                     callAuths, callGood, track_uri, caught>>
           first == get_first_track_uri(results')
       IN  IF search_type = "track"
           THEN IF first.err.type = "IndexError"
                THEN \* except IndexError
                     /\ caught' = first.err
                     /\ printed' = [NoPrint EXCEPT !.fmt = "No results returned for '%s'.",
                                                   !.arg = raw_query]
                     /\ pc' = "prompt"
                     /\ UNCHANGED <<site, error, retval, posts, tokenReq, callPosts, callVars, token,
                                    callAuths, callGood, track_uri>>
                ELSE IF first.err # NoError
                THEN Fail(first.err)
                ELSE \* add_to_queue -> get_queue_headers -> get_access_token
                     /\ track_uri' = first.uri
                     /\ printed' = shown
                     /\ caught' = caught
                     /\ get_access_token_enter(QueueGrant, "queue")
           ELSE \* SpotifyAPI has no method get_first_album_id
                Fail(Exc("AttributeError", "get_first_album_id"))

\* add_to_queue reporting every failure with the reason phrase of the answer.
queue_error_reason_Generic(status) == ReasonOf(status)

\* SpotifyAPI.add_to_queue: the reason shown for a status that is not accepted
queue_error_reason(status) ==
    IF status = 404
    THEN "Connection not made, please launch your Spotify application"
    ELSE ReasonOf(status)

\* The queue endpoint answers: the rest of add_to_queue, then the loop
\* prompts again.
QueueResponse(status) ==
    /\ pc = "queue_wait"
    /\ printed' = IF valid_request(status) THEN printed
                  ELSE [NoPrint EXCEPT
                          !.fmt = "%d ERROR: %s", !.code = status,
                          !.reason = queue_error_reason(status)]
    /\ pc' = "prompt"
    /\ UNCHANGED <<pyVars, cls, session, objVars, now, site, error, retval, posts, tokenReq, callPosts,
                   callVars, token, histVars, active, raw_query, query, search_type,
                   results, track_uri, reqs, caught, sessionGrants>>

Blocking == {"idle", "consent_wait", "post_wait", "prompt", "search_wait", "queue_wait"}

\* Time passes while the program waits.
Tick ==
    /\ pc \in Blocking
    /\ now < MaxTime
    /\ now' = now + 1
    /\ UNCHANGED <<pyVars, cls, session, objVars, ctlVars, callVars, token, histVars, botVars>>

Next ==
    \/ \E c \in Classes, s \in {"direct", "bot"}, cred \in Credentials :
          Construct(c, s, cred)
    \/ \E at \in AuthTypes : CallGetAccessToken(at)
    \/ \E at \in AuthTypes : CallPerformAuth(at)
    \/ \E uri \in Uris : PasteUri(uri)
    \/ \E status \in Statuses, body \in Bodies : TokenResponse(status, body)
    \/ CallerReturn
    \/ Propagate
    \/ PerformQueueAdding
    \/ \E line \in Lines : ReadInput(line)
    \/ HeadersReturn
    \/ \E status \in Statuses, json \in SearchJsons : SearchResponse(status, json)
    \/ \E status \in Statuses : QueueResponse(status)
    \/ Tick

Spec == Init /\ [][Next]_vars

-----------------------------------------------------------------------------
\* Two objects of SpotifyAPIOAuth2 in one process.  The process is single
\* threaded, so a call of perform_auth runs to its end before the next call
\* starts; both objects have their credentials.

\* The answers and pasted lines tried on the two objects: an accepted and a
\* rejected status; bodies with a token, with and without expires_in; lines
\* with each of the two codes and without a code.
TwoStatuses == {200, 404}
TwoBodies == {b \in Bodies : b.tok = "token" /\ b.exp \in {None, Some(1)}}
TwoUris == {u \in Uris : get_code_from_uri(u) # Some("") /\ Len(u.query) # 0}

\* perform_auth(at) on object o: the user pastes uri at the consent prompt
\* (authorization-code grant), the token endpoint answers status and body.
AuthOn(o, at, uri, status, body) ==
    LET code == get_code_from_uri(uri)
        consent == at = "authorization_code"
        posted == \/ at = "client_credentials"
                  \/ consent /\ code # None
        \* store_auth_code: self.auth_code = self.get_code_from_uri(uri)
        h1 == IF consent /\ code # None THEN Store(heap, o, "auth_code", code) ELSE heap
        tok == IF body.tok = "null" THEN None ELSE Some(posts)
        \* self.access_token = data["access_token"]
        h2 == Store(h1, o, "access_token", tok)
        \* self.access_token_expires = now + timedelta(seconds=data["expires_in"])
        h3 == Store(h2, o, "access_token_expires", Some(now + body.exp[1]))
    IN  /\ pc = "new"
        /\ posted => posts < MaxPosts
        /\ posts' = IF posted THEN posts + 1 ELSE posts
        /\ heap' = IF ~posted \/ ~valid_request(status) \/ body.tok = "missing" THEN h1
                   ELSE IF body.exp = None THEN h2
                   ELSE h3
        /\ actor' = o
        /\ UNCHANGED <<cls, session, objVars, now, pc, site, error, retval, callPosts,
                       tokenReq, callVars, token, histVars, botVars>>

\* Time passes between two calls.
TickTwo ==
    /\ pc = "new"
    /\ now < MaxTime
    /\ now' = now + 1
    /\ actor' = 0
    /\ UNCHANGED <<cls, session, objVars, ctlVars, callVars, token, histVars, botVars,
                   heap>>

NextTwo ==
    \/ \E o \in Objs, at \in AuthTypes, uri \in TwoUris, status \in TwoStatuses,
          body \in TwoBodies :
          AuthOn(o, at, uri, status, body)
    \/ TickTwo

SpecTwo == Init /\ [][NextTwo]_vars

-----------------------------------------------------------------------------
\* Properties.

\* An accessor call (get_access_token) has just returned or raised.
AccessorReturned == pc = "returned"
AccessorEnded == pc \in {"returned", "raised"} /\ caller \in {"direct", "search", "queue"}

\* The exception perform_auth raises for a status it does not accept.
Rejected == Exc("Exception", "Could not authenticate client.")

\* C1: of two consecutive successful accessor calls with the same grant
\* type, the second entered while the stored token is valid, exactly one
\* POST goes to the token endpoint over both calls (the second call sends
\* none).
C1_OnePostOverTwoCalls ==
    (AccessorReturned /\ entryState = "Valid" /\ prevCall.grant = authType)
        => prevCall.posts + callPosts = 1

\* C2: an accessor call entered in the Expired state, all of whose token
\* requests are answered with a success carrying a token and a positive
\* expires_in, has sent exactly one POST to the token endpoint when it ends.
C2_ExpiredOneReauth ==
    (AccessorEnded /\ entryState = "Expired" /\ callPosts >= 1 /\ callGood)
        => callPosts = 1

\* C2 witness: a call entered with an expired token has returned after one
\* POST answered with a good response.
C2_Witness ==
    /\ AccessorReturned /\ entryState = "Expired"
    /\ callGood /\ callPosts = 1

\* C3: whenever the accessor returns, the value returned is the stored
\* access_token, and that token is present and not yet expired
\* (now < expires_at).
C3_ReturnsUsableStoredToken ==
    AccessorReturned =>
        /\ retval = access_token
        /\ access_token # None
        /\ access_token_expires # None
        /\ now < access_token_expires[1]

\* C4: one accessor call authenticates at most twice (the first
\* authentication and one retry).
C4_AtMostOneRetry == callAuths <= 2

\* C5: the validity check of get_access_token, made after the first
\* perform_auth of a call, lets the call return exactly when the stored
\* access_token is present and now < expires_at.
C5_ValidityCheck ==
    [][ (pc = "post_wait" /\ site = "L112" /\ (pc' = "returned" \/ site' = "L122"))
          => ((pc' = "returned") <=>
                (access_token' # None /\ now' < access_token_expires'[1])) ]_vars

\* C6: perform_auth rejects the answer of the token endpoint exactly when
\* the status is outside the closed range 200..299.
C6_SuccessRangeClosed ==
    (pc \in {"returned", "auth_returned", "raised"} /\ lastStatus # 0)
        => ((error = Rejected) <=> (lastStatus \notin 200..299))

\* C7: when the token endpoint answers with a status outside 200..299,
\* perform_auth fails with an AuthenticationError that carries the status,
\* after exactly one POST of that invocation.
C7_AuthenticationErrorWithStatus ==
    (pc = "raised" /\ lastStatus # 0 /\ lastStatus \notin 200..299)
        => /\ error.type = "AuthenticationError"
           /\ error.status = Some(lastStatus)
           /\ caller = "perform_auth" => callPosts = 1

\* C8: an object with an empty or absent client_id or client_secret never
\* exists: its construction fails with ConfigurationError.
C8_ConstructionRejectsEmptyCredentials ==
    (pc # "new" /\ (client_id \in {None, Some("")} \/ client_secret \in {None, Some("")}))
        => error.type = "ConfigurationError"

\* C9: a line pasted at the consent prompt either yields its code, which is
\* stored as the authorization code, or (no code parameter) the flow fails
\* with ConsentError, sends no token exchange and prompts again.
C9_ConsentErrorAndReprompt ==
    [][ \A uri \in Uris :
          PasteUri(uri) =>
            IF get_code_from_uri(uri) # None
            THEN auth_code' = get_code_from_uri(uri)
            ELSE /\ error'.type = "ConsentError"
                 /\ posts' = posts
                 /\ pc' = "consent_wait" ]_vars

\* C10: the read loop is never ended by the token endpoint rejecting the
\* authentication nor by the search endpoint answering a non-2xx status.
C10_LoopSurvivesApiFailures ==
    ~ /\ pc = "crashed"
      /\ \/ error = Rejected
         \/ error = Exc("KeyError", "tracks") /\ printed.fmt = "%d"

\* C11: the step that reads "-quit" ends the loop at once, sending no token
\* request and no API request and opening no consent prompt; nothing
\* happens after the loop has ended.
C11_QuitEndsLoopWithoutNetwork ==
    [][ /\ (pc = "prompt" /\ pc' # "prompt" /\ raw_query' = QuitLine)
            => (pc' = "exited" /\ ~active' /\ posts' = posts /\ reqs' = <<>>)
        /\ pc # "exited" ]_vars

\* C11 witness: the loop has ended by "-quit" in a session that had already
\* obtained a token.
C11_Witness == pc = "exited" /\ raw_query = QuitLine /\ access_token # None

\* An iteration whose search was answered with an empty list of tracks has
\* come back to the prompt.
EmptyTrackResult ==
    /\ pc = "prompt" /\ reqs # <<>>
    /\ search_type = "track" /\ results.tracks = Some(<<>>)

\* C12: when the search returns an empty list of tracks, the first-track
\* lookup fails with ResourceNotFoundError, which is handled: no queue-add
\* request is sent in that iteration, the failure is reported with the
\* literal query, and the loop prompts again.
C12_EmptyResultResourceNotFound ==
    EmptyTrackResult =>
        /\ caught.type = "ResourceNotFoundError"
        /\ \A i \in 1..Len(reqs) : reqs[i].kind # "queue"
        /\ printed = [NoPrint EXCEPT !.fmt = "No results returned for '%s'.",
                                     !.arg = raw_query]

\* C13: the consent flow (browser opened, blocking prompt) starts only in an
\* accessor call that has to authenticate: a call entered while the stored
\* token is valid never waits at the consent prompt.
C13_ConsentOnlyWhenAuthNeeded ==
    (pc = "consent_wait" /\ caller \in {"direct", "search", "queue"})
        => entryState # "Valid"

\* C14: every token exchange of the authorization-code grant is sent by the
\* very step in which a consent cycle delivered a code, and carries exactly
\* that code: no exchange is sent without a fresh consent, so no code is
\* sent twice.
C14_CodeNeverReused ==
    [][ (posts' = posts + 1 /\ tokenReq'.grant_type = "authorization_code")
            => /\ pc = "consent_wait"
               /\ \E uri \in Uris :
                     /\ get_code_from_uri(uri) # None
                     /\ tokenReq'.code = get_code_from_uri(uri)
                     /\ PasteUri(uri) ]_vars

\* C14 witness: a second exchange of the session is waiting for its answer
\* and carries the code of the consent cycle just completed.
C14_Witness ==
    /\ pc = "post_wait" /\ posts >= 2
    /\ tokenReq.grant_type = "authorization_code"
    /\ tokenReq.code = auth_code /\ auth_code # None

\* The input line is pre, then "-album", then post.
SplitAtAlbumFlag(line, pre, post) == line = pre \o AlbumFlag \o post

\* The prefixes and suffixes of a line.
Affixes(line) ==
    {SubSeq(line, 1, k) : k \in 0..Len(line)} \cup
    {SubSeq(line, k, Len(line)) : k \in 1..(Len(line) + 1)}

\* C15: the search request of an iteration has type album and the input
\* with "-album" taken out when the input line contains "-album", and has
\* type track and the unmodified input otherwise.
C15_AlbumFlagClassification ==
    \A i \in 1..Len(reqs) :
        reqs[i].kind = "search" =>
            /\ \A pre, post \in Affixes(raw_query) :
                  SplitAtAlbumFlag(raw_query, pre, post)
                      => (reqs[i].type = "album" /\ reqs[i].q = pre \o post)
            /\ (~ \E pre, post \in Affixes(raw_query) :
                      SplitAtAlbumFlag(raw_query, pre, post))
                  => (reqs[i].type = "track" /\ reqs[i].q = raw_query)

\* C15 witness: the search for the line "a -album" has been sent, with type
\* album and the text "a ".
C15_Witness ==
    /\ pc = "search_wait"
    /\ raw_query = <<"a", " ">> \o AlbumFlag
    /\ reqs = <<search_request(<<"a", " ">>, "album")>>

\* The album search of the current iteration has been answered with at
\* least one album.
AlbumFound ==
    /\ session = "bot" /\ search_type = "album"
    /\ Len(reqs) >= 1 /\ pc # "search_wait"
    /\ results.albums # None /\ results.albums[1] # <<>>

\* C16: an album query whose search returns at least one album goes on to
\* enqueue that album and comes back to the prompt; the iteration does not
\* end in an exception.
C16_AlbumPathCompletes ==
    AlbumFound => (pc \notin {"raised", "crashed"} /\ error = NoError)

\* add_to_queue has reported a failed queue-add.
QueueFailureShown == printed.fmt = "%d ERROR: %s"

\* C17: a queue-add answered with 404 is reported with the message that the
\* connection to the player was not made (launch the application), which is
\* not the reason phrase of the answer and is used for no other status; after
\* the report the loop is at its prompt again.
C17_DeviceUnreachableMessage ==
    QueueFailureShown =>
        /\ pc = "prompt"
        /\ printed.code = 404 <=>
               printed.reason = "Connection not made, please launch your Spotify application"
        /\ printed.code = 404 => printed.reason # ReasonOf(404)

\* C17 witness: a queue-add was answered with 404 and reported.
C17_Witness ==
    /\ QueueFailureShown /\ printed.code = 404
    /\ Len(reqs) = 2 /\ reqs[2].kind = "queue"

\* C18: the token state is per object: a call of perform_auth on one object
\* leaves the access_token, access_token_expires and auth_code that the
\* other object reads exactly as they were.
C18_TokenStatePerInstance ==
    [][ \A o \in Objs :
          actor' = o =>
              \A p \in Objs \ {o}, a \in Attrs : GetAttr(heap', p, a) = GetAttr(heap, p, a) ]_vars

\* C18 witness: object 1 has just authenticated successfully while object 2
\* holds the token of its own earlier authentication.
C18_Witness ==
    /\ actor = 1
    /\ GetAttr(heap, 1, "access_token") = Some(posts - 1)
    /\ GetAttr(heap, 1, "access_token_expires") # None
    /\ GetAttr(heap, 2, "access_token") # None
    /\ GetAttr(heap, 2, "access_token") # GetAttr(heap, 1, "access_token")

\* The exception perform_auth raises for a grant type it does not know.
InvalidFlow == Exc("Exception", "Invalid authorization flow entered.")

\* C19: a perform_auth that fails, because the token endpoint answered with
\* a status outside 200..299 (or with any status the call rejects) or
\* because the grant type is invalid, raises and leaves access_token and
\* access_token_expires exactly as they were.
C19_FailedAuthKeepsToken ==
    [][ /\ (pc = "post_wait" /\ lastStatus' # 0 /\ lastStatus' \notin 200..299)
            => (pc' = "raised" /\ UNCHANGED tokenVars)
        /\ (pc = "post_wait" /\ error' = Rejected) => UNCHANGED tokenVars
        /\ (pc # "raised" /\ error' = InvalidFlow)
            => (pc' = "raised" /\ UNCHANGED tokenVars) ]_vars

\* C19 witness: an authentication has just been rejected with status 404
\* on an object that holds a token and its expiry.
C19_Witness ==
    /\ pc = "raised" /\ error = Rejected /\ lastStatus = 404
    /\ access_token # None /\ access_token_expires # None

\* C20: all bearer tokens presented to the search and queue-add endpoints
\* in one session of the read loop were obtained with one and the same
\* grant type.
C20_OneGrantPerSession == Cardinality(sessionGrants) <= 1

\* C20 witness: in this iteration a bearer token has been presented to the
\* search endpoint and another to the queue-add endpoint.
C20_Witness ==
    /\ Len(reqs) = 2 /\ reqs[1].kind = "search" /\ reqs[2].kind = "queue"
    /\ sessionGrants # {}

\* C21: in a track iteration the requests sent are the search, then at most
\* one queue-add; a queue-add is sent only after the search of the same
\* iteration returned at least one track, and it carries the URI of the
\* first item of that result.
C21_SearchThenOneQueueAdd ==
    search_type = "track" =>
        /\ Len(reqs) <= 2
        /\ Len(reqs) >= 1 => reqs[1].kind = "search"
        /\ Len(reqs) = 2 =>
              /\ reqs[2].kind = "queue"
              /\ results.tracks # None /\ results.tracks[1] # <<>>
              /\ reqs[2].uri = results.tracks[1][1]

\* C21 witness: the queue-add of an iteration whose search returned two
\* tracks has been sent with the URI of the first.
C21_Witness ==
    /\ search_type = "track" /\ pc = "queue_wait"
    /\ results.tracks = Some(<<"uri2", "uri1">>)
    /\ reqs = <<search_request(raw_query, "track"), queue_request("uri2")>>

\* C22: a call of perform_auth (directly or through get_access_token) with
\* a grant type other than "client_credentials" and "authorization_code"
\* raises at once: no POST goes to the token endpoint, the consent flow
\* (browser, prompt) does not start, and auth_code, access_token and
\* access_token_expires keep their values.
C22_InvalidGrantNoSideEffect ==
    [][ (pc = "idle" /\ authType' \notin {"none", "client_credentials", "authorization_code"})
            => /\ pc' = "raised" /\ error' = InvalidFlow
               /\ posts' = posts /\ tokenReq' = NoData
               /\ UNCHANGED <<auth_code, access_token, access_token_expires>> ]_vars

\* C22 witness: perform_auth with an unknown grant type has raised on an
\* object that holds a code, a token and an expiry.
C22_Witness ==
    /\ pc = "raised" /\ error = InvalidFlow /\ caller = "perform_auth"
    /\ authType = "implicit"
    /\ auth_code # None /\ access_token # None /\ access_token_expires # None

\* C23: in every state of the object access_token and access_token_expires
\* are both absent or both present: there is never a token without an expiry
\* nor an expiry without a token.
C23_TokenAndExpiryTogether ==
    (access_token = None) <=> (access_token_expires = None)

====
